---- MODULE Spec2Model ----
(***************************************************************************)
(* yt2raindrop (src/main.py): one run of main().  The YouTube list API is  *)
(* traversed page by page by the generator list_key_items_from_pages, the  *)
(* collected records are optionally written to files and then posted one   *)
(* by one to Raindrop.io.                                                  *)
(*                                                                         *)
(* Python's Optional values are modelled as sequences of length <= 1:      *)
(* None is <<>> and a value x is <<x>>.                                    *)
(***************************************************************************)
EXTENDS Integers, Sequences, FiniteSets

\* ---------------------------------------------------------------- bounds
\* Largest number of items one list query of the platform serves.
MaxItems == 3
\* Largest number of pages one list query of the platform serves.
MaxPages == 2

\* ------------------------------------------------------ program constants
\* The only status add_to_raindrop counts as success.
HTTP_OK == 200

\* Statuses the bookmark endpoint answers with (one success, two failures).
StatusCodes == {HTTP_OK, 201, 500}

\* Playlist titles the platform may hold, and names the operator may pass.
Titles == {"A", "B"}

None == <<>>
Some(x) == <<x>>

VARIABLES
    playlist_name,    \* --playlist-name: None, Some("") or Some(name)
    liked,            \* --liked
    save_to_file,     \* --save-to-file
    dry_run,          \* --dry-run
    pc,               \* position of main()
    liked_videos,     \* main's liked_videos
    playlist_videos,  \* main's playlist_videos
    playlist_id,      \* result of get_playlist_id
    maybe_videos,     \* main's _playlist_videos: None or Some("generator")
    videos,           \* main's videos (the merged list)
    stdout,           \* everything printed, in order
    files,            \* the files written: name -> content
    query,            \* kwargs of the list call of the live generator
    pages,            \* the responses the platform serves for that query
    gpc,              \* position of the live list_key_items_from_pages
    request,          \* its local request: None or Some(page number)
    response,         \* its local response: None or Some(page)
    idx,              \* position of its for loop in the page's items
    execCount,        \* history: execute() calls of the live generator
    yielded,          \* history: raw items the live generator handed out
    i,                \* position of the export in videos
    status,           \* status code of the last create-bookmark response
    success,          \* process_video's local success
    posts,            \* history: bodies of the create-bookmark requests
    sleeps            \* history: number of sleep() calls

inputs == <<playlist_name, liked, save_to_file, dry_run>>
mainVars == <<liked_videos, playlist_videos, playlist_id, maybe_videos, videos>>
genVars == <<query, pages, gpc, request, response, idx, execCount, yielded>>
exportVars == <<i, status, success, posts, sleeps>>
vars == <<inputs, pc, mainVars, stdout, files, genVars, exportVars>>

\* ---------------------------------------------------------------- helpers
Range(s) == {s[k] : k \in DOMAIN s}

RECURSIVE SumSeq(_)
SumSeq(s) == IF s = <<>> THEN 0 ELSE s[1] + SumSeq(Tail(s))

RECURSIVE Flatten(_)
Flatten(ss) == IF ss = <<>> THEN <<>> ELSE ss[1] \o Flatten(Tail(ss))

\* Python truthiness of an Optional[str].
Truthy(opt) == opt # None /\ opt[1] # ""

\* ------------------------------------------------- the platform (YouTube)
\* Raw items as the list API returns them; the k-th item of a resource.
VideoItem(k) == [id |-> <<"v", k>>, snippet |-> [title |-> <<"t", k>>]]
PlaylistItemItem(k) ==
    [snippet |-> [title |-> <<"t", k>>, resourceId |-> [videoId |-> <<"v", k>>]]]
PlaylistEntry(k, t) == [id |-> <<"PL", k>>, snippet |-> [title |-> t]]

\* How many items each page holds.
SizeSeqs ==
    {s \in UNION {[1..p -> 0..MaxItems] : p \in 1..MaxPages} : SumSeq(s) <= MaxItems}

PageItems(all, s, j) ==
    SubSeq(all, SumSeq(SubSeq(s, 1, j - 1)) + 1, SumSeq(SubSeq(s, 1, j)))

\* The pages serving the items `all` split as s; an empty page may come
\* with an empty "items" array or without the key.
PageLists(all, s) ==
    {[j \in 1..Len(s) |->
        IF withKey[j] THEN [items |-> PageItems(all, s, j)] ELSE [etag |-> "e"]] :
     withKey \in {w \in [1..Len(s) -> BOOLEAN] : \A j \in 1..Len(s) : s[j] > 0 => w[j]}}

\* What the platform may serve for a list query.
Served(q) ==
    IF q.resource = "videos"
    THEN UNION {PageLists([k \in 1..SumSeq(s) |-> VideoItem(k)], s) : s \in SizeSeqs}
    ELSE IF q.resource = "playlistItems"
    THEN UNION {PageLists([k \in 1..SumSeq(s) |-> PlaylistItemItem(k)], s) : s \in SizeSeqs}
    ELSE UNION {UNION {PageLists([k \in 1..SumSeq(s) |-> PlaylistEntry(k, t[k])], s) :
                       t \in [1..SumSeq(s) -> Titles]} : s \in SizeSeqs}

\* response.get(key, [])
Get(resp, key, default) == IF key \in DOMAIN resp THEN resp[key] ELSE default

Key == "items"
ItemsOf(resp) == Get(resp, Key, <<>>)

\* All items of a list of pages, in served order.
AllItems(ps) == Flatten([j \in 1..Len(ps) |-> ItemsOf(ps[j])])

\* yt_obj.list_next(request, response): the next page's request, or None.
\* Faulty variant: the last page is never asked for.
ListNextShort(req, ps) == IF req[1] + 1 < Len(ps) THEN Some(req[1] + 1) ELSE None
\* list_next as the platform implements it.
ListNext(req, ps) == IF req[1] < Len(ps) THEN Some(req[1] + 1) ELSE None

\* ------------------------------------------------------------ projections
Url(v) == <<"https://www.youtube.com/watch?v=", v>>
LikedRecord(item) == [title |-> item.snippet.title, url |-> Url(item.id)]
PlaylistRecord(item) ==
    [title |-> item.snippet.title, url |-> Url(item.snippet.resourceId.videoId)]

\* ------------------------------------------------------------------- Init
NoQuery == [resource |-> "none"]

Init ==
    /\ playlist_name \in {None, Some(""), Some("A")}
    /\ liked \in BOOLEAN
    /\ save_to_file \in BOOLEAN
    /\ dry_run \in BOOLEAN
    /\ pc = "start"
    /\ liked_videos = <<>>
    /\ playlist_videos = <<>>
    /\ playlist_id = None
    /\ maybe_videos = None
    /\ videos = <<>>
    /\ stdout = <<>>
    /\ files = <<>>
    /\ query = NoQuery
    /\ pages = <<>>
    /\ gpc = "none"
    /\ request = None
    /\ response = None
    /\ idx = 0
    /\ execCount = 0
    /\ yielded = <<>>
    /\ i = 0
    /\ status = 0
    /\ success = FALSE
    /\ posts = <<>>
    /\ sleeps = 0

\* ------------------------------------------- list_key_items_from_pages
\* A generator object is created; its body has not run yet.
NewGen(q) ==
    /\ query' = q
    /\ pages' = <<>>
    /\ gpc' = "list"
    /\ request' = None
    /\ response' = None
    /\ idx' = 0
    /\ execCount' = 0
    /\ yielded' = <<>>

\* The last generator is released.
DropGen ==
    /\ query' = NoQuery
    /\ pages' = <<>>
    /\ gpc' = "none"
    /\ request' = None
    /\ response' = None
    /\ idx' = 0
    /\ execCount' = 0
    /\ yielded' = <<>>

Traversing == pc \in {"liked", "get_playlist_id", "playlist_items"}

\* request = yt_obj.list(**kwargs); the platform fixes what the query serves.
GenList ==
    /\ Traversing /\ gpc = "list"
    /\ \E ps \in Served(query) : pages' = ps
    /\ request' = Some(1)
    /\ gpc' = "execute"
    /\ UNCHANGED <<query, response, idx, execCount, yielded>>
    /\ UNCHANGED <<inputs, pc, mainVars, stdout, files, exportVars>>

\* while request: response = request.execute()
GenExecute ==
    /\ Traversing /\ gpc = "execute" /\ request # None
    /\ response' = Some(pages[request[1]])
    /\ execCount' = execCount + 1
    /\ idx' = 1
    /\ gpc' = "for"
    /\ UNCHANGED <<query, pages, request, yielded>>
    /\ UNCHANGED <<inputs, pc, mainVars, stdout, files, exportVars>>

\* The for loop over the page is exhausted:
\* request = yt_obj.list_next(request, response), then the while test.
\* Faulty variant: the next page is asked for before the page is used up.
GenListNextEarly ==
    /\ Traversing /\ gpc = "for"
    /\ request' = ListNext(request, pages)
    /\ gpc' = IF request' # None THEN "execute" ELSE "done"
    /\ UNCHANGED <<query, pages, response, idx, execCount, yielded>>
    /\ UNCHANGED <<inputs, pc, mainVars, stdout, files, exportVars>>
\* The loop as written.
GenListNext ==
    /\ Traversing /\ gpc = "for" /\ idx > Len(ItemsOf(response[1]))
    /\ request' = ListNext(request, pages)
    /\ gpc' = IF request' # None THEN "execute" ELSE "done"
    /\ UNCHANGED <<query, pages, response, idx, execCount, yielded>>
    /\ UNCHANGED <<inputs, pc, mainVars, stdout, files, exportVars>>

\* The for loop has an item to yield.
HasItem == gpc = "for" /\ idx <= Len(ItemsOf(response[1]))
Item == ItemsOf(response[1])[idx]

\* yield item: the item goes to the consumer, the generator stays suspended
\* in the loop.
GenYield ==
    /\ yielded' = Append(yielded, Item)
    /\ idx' = idx + 1
    /\ UNCHANGED <<query, pages, gpc, request, response, execCount>>

\* ---------------------------------------------------------------- main
Say(msg) == stdout' = Append(stdout, msg)

\* youtube = get_youtube_service(); if liked: ... else: liked_videos = []
Start ==
    /\ pc = "start"
    /\ IF liked
       THEN /\ NewGen([resource |-> "videos", myRating |-> "like"])
            /\ pc' = "liked"
       ELSE /\ UNCHANGED genVars
            /\ pc' = "playlist"
    /\ liked_videos' = <<>>
    /\ UNCHANGED <<playlist_videos, playlist_id, maybe_videos, videos>>
    /\ UNCHANGED <<inputs, stdout, files, exportVars>>

\* get_liked_videos projects an item; list() appends it.
LikedItem ==
    /\ pc = "liked" /\ HasItem
    /\ GenYield
    /\ liked_videos' = Append(liked_videos, LikedRecord(Item))
    /\ UNCHANGED <<playlist_videos, playlist_id, maybe_videos, videos>>
    /\ UNCHANGED <<inputs, pc, stdout, files, exportVars>>

\* The generator is exhausted: list() returns; print the count.
LikedDone ==
    /\ pc = "liked" /\ gpc = "done"
    /\ Say(<<"Found liked videos.", Len(liked_videos)>>)
    /\ pc' = "playlist"
    /\ UNCHANGED <<inputs, mainVars, files, genVars, exportVars>>

\* if playlist_name: ... else: playlist_videos = []
Playlist ==
    /\ pc = "playlist"
    /\ IF Truthy(playlist_name)
       THEN /\ NewGen([resource |-> "playlists", mine |-> TRUE])
            /\ pc' = "get_playlist_id"
       ELSE /\ DropGen
            /\ pc' = "merge"
    /\ playlist_videos' = <<>>
    /\ UNCHANGED <<liked_videos, playlist_id, maybe_videos, videos>>
    /\ UNCHANGED <<inputs, stdout, files, exportVars>>

\* filter_playlist_matches' predicate.
\* Faulty variant: the filter lets every playlist through.
MatchesAny(item, name) == TRUE
\* The predicate as written.
Matches(item, name) == name = item.snippet.title

\* excepts(StopIteration, get_id_of_first): the exceptions it turns into None.
\* Faulty variant: excepts(Exception, ...).
CaughtAll(exc) == TRUE
\* The handler as written.
Caught(exc) == exc = "StopIteration"

\* The filter sees an item; first() takes the first one it lets through and
\* get("id") returns its id; the generator is abandoned.
ResolveItem ==
    /\ pc = "get_playlist_id" /\ HasItem
    /\ GenYield
    /\ IF Matches(Item, playlist_name[1])
       THEN /\ playlist_id' = Some(Item.id)
            /\ pc' = "get_playlist_videos"
       ELSE /\ UNCHANGED <<playlist_id, pc>>
    /\ UNCHANGED <<liked_videos, playlist_videos, maybe_videos, videos>>
    /\ UNCHANGED <<inputs, stdout, files, exportVars>>

\* The generator is exhausted: first() raises StopIteration.
ResolveExhausted ==
    /\ pc = "get_playlist_id" /\ gpc = "done"
    /\ IF Caught("StopIteration")
       THEN /\ playlist_id' = None
            /\ pc' = "get_playlist_videos"
       ELSE /\ pc' = "crashed"
            /\ UNCHANGED playlist_id
    /\ UNCHANGED <<liked_videos, playlist_videos, maybe_videos, videos>>
    /\ UNCHANGED <<inputs, stdout, files, genVars, exportVars>>

\* request.execute() raises (transport or API error).  Nothing in
\* get_liked_videos, get_playlist_videos or main catches it; the resolver
\* catches what Caught says.
GenExecuteRaises ==
    /\ Traversing /\ gpc = "execute" /\ request # None
    /\ execCount' = execCount + 1
    /\ gpc' = "raised"
    /\ IF pc = "get_playlist_id" /\ Caught("HttpError")
       THEN /\ playlist_id' = None
            /\ pc' = "get_playlist_videos"
       ELSE /\ pc' = "crashed"
            /\ UNCHANGED playlist_id
    /\ UNCHANGED <<query, pages, request, response, idx, yielded>>
    /\ UNCHANGED <<liked_videos, playlist_videos, maybe_videos, videos>>
    /\ UNCHANGED <<inputs, stdout, files, exportVars>>

\* get_playlist_videos after get_playlist_id: if not playlist_id: return None;
\* otherwise a generator object is returned.  (Playlist ids are non-empty, so
\* `not playlist_id` is `playlist_id is None`.)
\* Faulty variant: a generator is returned also when the id is None.
GetPlaylistVideosNoSentinel ==
    /\ pc = "get_playlist_videos"
    /\ maybe_videos' = Some("generator")
    /\ pc' = "check_found"
    /\ UNCHANGED <<liked_videos, playlist_videos, playlist_id, videos>>
    /\ UNCHANGED <<inputs, stdout, files, genVars, exportVars>>
\* The function as written.
GetPlaylistVideos ==
    /\ pc = "get_playlist_videos"
    /\ maybe_videos' = IF playlist_id = None THEN None ELSE Some("generator")
    /\ pc' = "check_found"
    /\ UNCHANGED <<liked_videos, playlist_videos, playlist_id, videos>>
    /\ UNCHANGED <<inputs, stdout, files, genVars, exportVars>>

\* if _playlist_videos is None: print("Playlist not found."); playlist_videos = []
PlaylistNotFound ==
    /\ pc = "check_found" /\ maybe_videos = None
    /\ Say(<<"Playlist not found.", 0>>)
    /\ playlist_videos' = <<>>
    /\ pc' = "merge"
    /\ UNCHANGED <<liked_videos, playlist_id, maybe_videos, videos>>
    /\ UNCHANGED <<inputs, files, genVars, exportVars>>

\* else: playlist_videos = list(_playlist_videos) starts the item traversal.
PlaylistCollect ==
    /\ pc = "check_found" /\ maybe_videos # None
    /\ NewGen([resource |-> "playlistItems", playlistId |-> playlist_id])
    /\ playlist_videos' = <<>>
    /\ pc' = "playlist_items"
    /\ UNCHANGED <<liked_videos, playlist_id, maybe_videos, videos>>
    /\ UNCHANGED <<inputs, stdout, files, exportVars>>

PlaylistItem ==
    /\ pc = "playlist_items" /\ HasItem
    /\ GenYield
    /\ playlist_videos' = Append(playlist_videos, PlaylistRecord(Item))
    /\ UNCHANGED <<liked_videos, playlist_id, maybe_videos, videos>>
    /\ UNCHANGED <<inputs, pc, stdout, files, exportVars>>

\* list() returns: "Empty playlist." or the count.
PlaylistDone ==
    /\ pc = "playlist_items" /\ gpc = "done"
    /\ IF playlist_videos = <<>>
       THEN Say(<<"Empty playlist.", 0>>)
       ELSE Say(<<"Found videos in playlist.", Len(playlist_videos)>>)
    /\ pc' = "merge"
    /\ UNCHANGED <<inputs, mainVars, files, genVars, exportVars>>

\* chain(liked_videos, playlist_videos)
\* Faulty variant: records already in the first list are dropped.
ChainUnique(a, b) == a \o SelectSeq(b, LAMBDA v : v \notin Range(a))
\* chain as itertools implements it.
Chain(a, b) == a \o b

\* videos = list(chain(liked_videos, playlist_videos)); the generators of the
\* collection are out of scope from here on.
Merge ==
    /\ pc = "merge"
    /\ videos' = Chain(liked_videos, playlist_videos)
    /\ DropGen
    /\ pc' = "save_liked"
    /\ UNCHANGED <<liked_videos, playlist_videos, playlist_id, maybe_videos>>
    /\ UNCHANGED <<inputs, stdout, files, exportVars>>

\* ------------------------------------------------ save_video_info_to_file
\* json.dumps(video_list, indent=2): a JSON array of the records.
JsonDumps(video_list) == [array |-> video_list, indent |-> 2]

\* open(outfile_name, "w"); write the array; write "\n".
Written(fs, outfile_name, video_list) ==
    [n \in DOMAIN fs \cup {outfile_name} |->
        IF n = outfile_name THEN <<JsonDumps(video_list), "\n">> ELSE fs[n]]

LikedFile == <<"youtube_liked_videos.jsonl">>
PlaylistFile(name) == <<"youtube_playlist_", name, "_videos.jsonl">>

\* if save_to_file: if liked: save liked videos
SaveLiked ==
    /\ pc = "save_liked"
    /\ IF save_to_file /\ liked
       THEN /\ files' = Written(files, LikedFile, liked_videos)
            /\ stdout' = stdout \o <<<<"Saving liked videos to file.", 0>>,
                                     <<"Done saving liked videos to file.", 0>>>>
       ELSE UNCHANGED <<files, stdout>>
    /\ pc' = "save_playlist"
    /\ UNCHANGED <<inputs, mainVars, genVars, exportVars>>

\* if save_to_file: if playlist_name: save playlist videos
\* Faulty variant: the file is written only for a non-empty list.
SavePlaylistNonEmpty ==
    /\ pc = "save_playlist"
    /\ IF save_to_file /\ Truthy(playlist_name) /\ playlist_videos # <<>>
       THEN /\ files' = Written(files, PlaylistFile(playlist_name[1]), playlist_videos)
            /\ stdout' = stdout \o <<<<"Saving playlist videos to file.", 0>>,
                                     <<"Done saving playlist videos to file.", 0>>>>
       ELSE UNCHANGED <<files, stdout>>
    /\ pc' = "export"
    /\ UNCHANGED <<inputs, mainVars, genVars, exportVars>>
\* The step as written.
SavePlaylist ==
    /\ pc = "save_playlist"
    /\ IF save_to_file /\ Truthy(playlist_name)
       THEN /\ files' = Written(files, PlaylistFile(playlist_name[1]), playlist_videos)
            /\ stdout' = stdout \o <<<<"Saving playlist videos to file.", 0>>,
                                     <<"Done saving playlist videos to file.", 0>>>>
       ELSE UNCHANGED <<files, stdout>>
    /\ pc' = "export"
    /\ UNCHANGED <<inputs, mainVars, genVars, exportVars>>

\* ------------------------------------------------------------ the export
\* if videos and not dry_run: ... else: print("No videos to export.")
\* Faulty variant: dry_run is not consulted.
ExportIgnoringDryRun ==
    /\ pc = "export"
    /\ IF videos # <<>>
       THEN /\ Say(<<"Exporting videos to Raindrop.io bookmarks...", 0>>)
            /\ i' = 1
            /\ pc' = "add_to_raindrop"
       ELSE /\ Say(<<"No videos to export.", 0>>)
            /\ i' = i
            /\ pc' = "done"
    /\ UNCHANGED <<status, success, posts, sleeps>>
    /\ UNCHANGED <<inputs, mainVars, files, genVars>>
\* The step as written.
Export ==
    /\ pc = "export"
    /\ IF videos # <<>> /\ ~dry_run
       THEN /\ Say(<<"Exporting videos to Raindrop.io bookmarks...", 0>>)
            /\ i' = 1
            /\ pc' = "add_to_raindrop"
       ELSE /\ Say(<<"No videos to export.", 0>>)
            /\ i' = i
            /\ pc' = "done"
    /\ UNCHANGED <<status, success, posts, sleeps>>
    /\ UNCHANGED <<inputs, mainVars, files, genVars>>

\* The JSON body of the create-bookmark request.
Body(title, url) == [link |-> url, title |-> title, collection |-> 0]

\* add_to_raindrop(video["title"], video["url"]): one POST; the endpoint
\* answers with some status; return response.status_code == 200.
\* Faulty variant: a failure status is raised as an exception.
AddToRaindropRaising ==
    /\ pc = "add_to_raindrop"
    /\ posts' = Append(posts, Body(videos[i].title, videos[i].url))
    /\ \E st \in StatusCodes :
        /\ status' = st
        /\ success' = (st = HTTP_OK)
        /\ pc' = IF st = HTTP_OK THEN "print" ELSE "crashed"
    /\ UNCHANGED <<i, sleeps>>
    /\ UNCHANGED <<inputs, mainVars, stdout, files, genVars>>
\* The function as written.
AddToRaindrop ==
    /\ pc = "add_to_raindrop"
    /\ posts' = Append(posts, Body(videos[i].title, videos[i].url))
    /\ \E st \in StatusCodes :
        /\ status' = st
        /\ success' = (st = HTTP_OK)
    /\ pc' = "print"
    /\ UNCHANGED <<i, sleeps>>
    /\ UNCHANGED <<inputs, mainVars, stdout, files, genVars>>

\* print(f'{"OK" if success else "FAIL"} {video["title"]}')
ReportOutcome ==
    /\ pc = "print"
    /\ Say(<<IF success THEN "OK" ELSE "FAIL", videos[i].title>>)
    /\ pc' = "sleep"
    /\ UNCHANGED <<inputs, mainVars, files, genVars, exportVars>>

\* sleep(sleep_duration); map() moves to the next video, consume() ends
\* after the last one.
\* Faulty variant: no pacing delay after a failed record.
SleepOnSuccess ==
    /\ pc = "sleep"
    /\ sleeps' = IF success THEN sleeps + 1 ELSE sleeps
    /\ i' = i + 1
    /\ pc' = IF i < Len(videos) THEN "add_to_raindrop" ELSE "done"
    /\ UNCHANGED <<status, success, posts>>
    /\ UNCHANGED <<inputs, mainVars, stdout, files, genVars>>
\* The step as written.
Sleep ==
    /\ pc = "sleep"
    /\ sleeps' = sleeps + 1
    /\ i' = i + 1
    /\ pc' = IF i < Len(videos) THEN "add_to_raindrop" ELSE "done"
    /\ UNCHANGED <<status, success, posts>>
    /\ UNCHANGED <<inputs, mainVars, stdout, files, genVars>>

\* ------------------------------------------------------------------- Next
Next ==
    \/ Start
    \/ GenList
    \/ GenExecute
    \/ GenExecuteRaises
    \/ GenListNext
    \/ LikedItem
    \/ LikedDone
    \/ Playlist
    \/ ResolveItem
    \/ ResolveExhausted
    \/ GetPlaylistVideos
    \/ PlaylistNotFound
    \/ PlaylistCollect
    \/ PlaylistItem
    \/ PlaylistDone
    \/ Merge
    \/ SaveLiked
    \/ SavePlaylist
    \/ Export
    \/ AddToRaindrop
    \/ ReportOutcome
    \/ Sleep

Spec == Init /\ [][Next]_vars

\* ------------------------------------------------------------- properties
\* The projection F applied to every item of s, in order.
Map(F(_), s) == [k \in 1..Len(s) |-> F(s[k])]

\* The per-item outcome lines of the export, in printed order.
Outcomes == SelectSeq(stdout, LAMBDA m : m[1] \in {"OK", "FAIL"})
Said(text) == \E k \in 1..Len(stdout) : stdout[k][1] = text

ExportPcs == {"add_to_raindrop", "print", "sleep"}
AfterSave == {"export", "done"} \cup ExportPcs

\* The playlists the platform lists whose title is the given name.
MatchPositions(items, name) == {k \in 1..Len(items) : items[k].snippet.title = name}
FirstMatch(items, name) ==
    CHOOSE k \in MatchPositions(items, name) : \A m \in MatchPositions(items, name) : k <= m
\* The page that holds the n-th item of the query.
PageOf(ps, n) ==
    CHOOSE j \in 1..Len(ps) :
        /\ Len(AllItems(SubSeq(ps, 1, j - 1))) < n
        /\ n <= Len(AllItems(SubSeq(ps, 1, j)))
\* get_playlist_id has returned and the playlists query is still at hand.
Resolved == pc \in {"get_playlist_videos", "check_found"} /\ query.resource = "playlists"

\* C1: a traversal that ran to its end yielded all N items of the P pages in
\* served order, executed exactly P page requests and holds no further
\* request; the lists built from it are the projections of those items.
C1_FullTraversal ==
    gpc = "done" =>
        /\ yielded = AllItems(pages)
        /\ execCount = Len(pages)
        /\ request = None
        /\ query.resource = "videos" => liked_videos = Map(LikedRecord, AllItems(pages))
        /\ query.resource = "playlistItems" =>
               playlist_videos = Map(PlaylistRecord, AllItems(pages))
C1_Witness ==
    /\ gpc = "done" /\ Len(pages) >= 2 /\ execCount >= 2
    /\ ItemsOf(pages[1]) # <<>> /\ ItemsOf(pages[2]) # <<>>
    /\ Len(yielded) >= 2

\* C2: get_playlist_id returns the id of the first playlist, in served order
\* across pages, whose title equals the name, None when there is none, and
\* does not fail when the list is exhausted.
C2_FirstMatch ==
    /\ Resolved /\ gpc # "raised" =>
          playlist_id =
              IF MatchPositions(AllItems(pages), playlist_name[1]) = {}
              THEN None
              ELSE Some(AllItems(pages)[FirstMatch(AllItems(pages), playlist_name[1])].id)
    /\ pc = "crashed" /\ query.resource = "playlists" => gpc = "raised"
C2_Witness ==
    /\ Resolved
    /\ Cardinality(MatchPositions(AllItems(pages), playlist_name[1])) >= 2
    /\ FirstMatch(AllItems(pages), playlist_name[1]) = 2
    /\ playlist_id = Some(<<"PL", 2>>)

\* C3: the export issues one request per record in order, prints one outcome
\* per record (OK iff the status is 200) and sleeps once after each record,
\* before the next request, whatever the outcome.
C3_Export ==
    /\ posts = [k \in 1..Len(posts) |-> Body(videos[k].title, videos[k].url)]
    /\ \A k \in 1..Len(Outcomes) : Outcomes[k][2] = videos[k].title
    /\ pc = "add_to_raindrop" =>
          Len(posts) = i - 1 /\ Len(Outcomes) = i - 1 /\ sleeps = i - 1
    /\ pc = "print" => Len(posts) = i /\ Len(Outcomes) = i - 1 /\ sleeps = i - 1
    /\ pc = "sleep" =>
          /\ Len(posts) = i /\ Len(Outcomes) = i /\ sleeps = i - 1
          /\ (Outcomes[i][1] = "OK") <=> (status = HTTP_OK)
    /\ pc = "done" /\ Said("Exporting videos to Raindrop.io bookmarks...") =>
          /\ Len(posts) = Len(videos)
          /\ Len(Outcomes) = Len(videos)
          /\ sleeps = Len(videos)
C3_Witness ==
    /\ pc = "done" /\ Len(videos) = 3 /\ Len(posts) = 3 /\ sleeps = 3
    /\ [k \in 1..3 |-> Outcomes[k][1]] = <<"OK", "FAIL", "OK">>

C5_DryRun ==
    /\ posts # <<>> => liked_videos \o playlist_videos # <<>> /\ ~dry_run
    /\ pc = "done" =>
          (posts # <<>>) <=> (liked_videos \o playlist_videos # <<>> /\ ~dry_run)
    /\ pc = "done" /\ (dry_run \/ liked_videos \o playlist_videos = <<>>) =>
          posts = <<>> /\ Said("No videos to export.")
    /\ Said("No videos to export.") => posts = <<>>
    /\ pc = "playlist" /\ liked => liked_videos = Map(LikedRecord, AllItems(pages))
    /\ pc \in AfterSave /\ liked /\ save_to_file =>
          /\ LikedFile \in DOMAIN files
          /\ files[LikedFile][1].array = liked_videos
C5_Witness ==
    /\ pc = "done" /\ dry_run /\ liked /\ save_to_file
    /\ Len(liked_videos) = 2
    /\ posts = <<>>
    /\ Len(files[LikedFile][1].array) = 2

\* C6: get_playlist_videos returns None exactly when no listed playlist has
\* the given title, otherwise the found playlist's items; "Playlist not
\* found." is printed only for an absent playlist, "Empty playlist." only for
\* a found one without items, and neither aborts the run.
C6_NotFoundOrEmpty ==
    /\ pc = "check_found" =>
          (maybe_videos = None) <=> (MatchPositions(AllItems(pages), playlist_name[1]) = {})
    /\ query.resource = "playlistItems" => playlist_id # None /\ query.playlistId = playlist_id
    /\ pc = "merge" =>
          /\ Said("Playlist not found.") <=>
                /\ query.resource = "playlists"
                /\ MatchPositions(AllItems(pages), playlist_name[1]) = {}
          /\ Said("Empty playlist.") <=>
                query.resource = "playlistItems" /\ AllItems(pages) = <<>>
          /\ query.resource = "playlistItems" =>
                playlist_videos = Map(PlaylistRecord, AllItems(pages))
    /\ Said("Playlist not found.") \/ Said("Empty playlist.") =>
          /\ pc # "crashed" /\ playlist_videos = <<>>
          /\ pc # "done" => ENABLED Next
    /\ Said("Empty playlist.") => playlist_id # None /\ ~Said("Playlist not found.")
    /\ Said("Playlist not found.") => playlist_id = None
C6_Witness ==
    /\ pc = "done" /\ Said("Empty playlist.")
    /\ playlist_id # None

\* C7: when a page fetch raises, the failing request is the last one issued,
\* only the items of the pages before it were yielded, the resolver does not
\* answer "not found", and the run has aborted with no file written and no
\* create-bookmark request issued.
C7_FetchFailureIsFatal ==
    gpc = "raised" =>
        /\ pc = "crashed"
        /\ execCount = request[1]
        /\ yielded = AllItems(SubSeq(pages, 1, request[1] - 1))
        /\ ~Said("Playlist not found.") /\ ~Said("Empty playlist.")
        /\ DOMAIN files = {}
        /\ posts = <<>>
C7_Witness ==
    /\ gpc = "raised" /\ pc = "crashed"
    /\ query.resource = "playlists" /\ execCount = 2
    /\ liked /\ save_to_file /\ liked_videos # <<>>

\* C8: a page is requested only after every item of the page before it was
\* handed out, the generator holds the page last fetched, and the resolver
\* requests pages up to the one with the first match (all of them without a
\* match).
C8_Lazy ==
    /\ gpc = "execute" =>
          /\ execCount = request[1] - 1
          /\ yielded = AllItems(SubSeq(pages, 1, execCount))
    /\ gpc = "for" =>
          /\ response = Some(pages[execCount])
          /\ yielded = AllItems(SubSeq(pages, 1, execCount - 1))
                          \o SubSeq(ItemsOf(pages[execCount]), 1, idx - 1)
    /\ Resolved /\ gpc # "raised" =>
          execCount =
              IF MatchPositions(AllItems(pages), playlist_name[1]) = {}
              THEN Len(pages)
              ELSE PageOf(pages, FirstMatch(AllItems(pages), playlist_name[1]))
C8_Witness ==
    /\ Resolved /\ playlist_id # None
    /\ Len(pages) = 2 /\ execCount = 1
    /\ ItemsOf(pages[2]) # <<>>

\* C9: the requests of an export are the liked records followed by the
\* playlist records, each once, duplicates included; every page fetch comes
\* before every file write and every file write before every request.
C9_Requests ==
    /\ Len(posts) <= Len(liked_videos) + Len(playlist_videos)
    /\ posts = [k \in 1..Len(posts) |->
                   LET v == (liked_videos \o playlist_videos)[k]
                   IN  Body(v.title, v.url)]
    /\ pc = "done" /\ posts # <<>> => Len(posts) = Len(liked_videos) + Len(playlist_videos)
    /\ pc = "playlist" /\ liked => liked_videos = Map(LikedRecord, AllItems(pages))
    /\ pc = "merge" /\ query.resource = "playlistItems" =>
          playlist_videos = Map(PlaylistRecord, AllItems(pages))
C9_Order ==
    /\ execCount' = execCount + 1 => DOMAIN files = {} /\ posts = <<>>
    /\ files' # files => posts = <<>> /\ gpc = "none"
    /\ posts' # posts => gpc = "none"
C9_MergedInOrder == []C9_Requests /\ [][C9_Order]_vars
C9_Witness ==
    /\ pc = "done" /\ save_to_file
    /\ liked_videos # <<>> /\ playlist_videos # <<>>
    /\ Len(posts) = Len(liked_videos) + Len(playlist_videos)
    /\ posts[1] = posts[Len(liked_videos) + 1]

\* C10: with saving on, the liked file is written iff --liked and the
\* playlist file iff a (non-empty) playlist name is given, also when the
\* playlist was not found or is empty (the file then holds an empty array);
\* no other file is written.
C10_FilesFollowFlags ==
    /\ pc \notin AfterSave \cup {"save_playlist"} => DOMAIN files = {}
    /\ DOMAIN files \subseteq
          {LikedFile} \cup (IF Truthy(playlist_name) THEN {PlaylistFile(playlist_name[1])} ELSE {})
    /\ pc \in AfterSave =>
          /\ LikedFile \in DOMAIN files <=> save_to_file /\ liked
          /\ Truthy(playlist_name) =>
                (PlaylistFile(playlist_name[1]) \in DOMAIN files <=> save_to_file)
          /\ ~Truthy(playlist_name) => DOMAIN files \subseteq {LikedFile}
          /\ /\ save_to_file
             /\ Said("Playlist not found.") \/ Said("Empty playlist.")
             => files[PlaylistFile(playlist_name[1])] = <<JsonDumps(<<>>), "\n">>
C10_Witness ==
    /\ pc = "done" /\ save_to_file /\ ~liked
    /\ Said("Playlist not found.")
    /\ DOMAIN files = {PlaylistFile(playlist_name[1])}
    /\ files[PlaylistFile(playlist_name[1])][1].array = <<>>

====
